---- MODULE Spec2Model ----
(***************************************************************************)
(* The symbol lookup of src/routes/flattrade.js: router.get("/symbols").    *)
(* A lookup consults symbolCache (node-cache, stdTTL 4 h); on a miss it     *)
(* streams the reference CSV row by row ("data" events), then on "end"      *)
(* sorts the two strike ladders, filters and sorts the expiry strings,      *)
(* stores the result in the cache and answers.                              *)
(*                                                                         *)
(* Time is counted in hours since 2025-01-01 00:00 local time.  Text        *)
(* fields are kept as text: a strike is its sequence of decimal digits, an  *)
(* expiry is the three fields of "dd-MMM-yyyy"; Number and parse compute    *)
(* the values the code compares.                                           *)
(***************************************************************************)
EXTENDS Integers, Sequences, FiniteSets, TLC

VARIABLES clock, alive, files, cache, req, scans, log

vars == <<clock, alive, files, cache, req, scans, log>>

\* ---------------------------------------------------------------- bounds
MaxReq == 3         \* requests the server receives in one behaviour
MaxTicks == 2       \* times the clock advances in one behaviour
TickHours == 3      \* hours the clock advances in one Tick
FileLen == 3        \* rows of the reference dataset in SpecBuild

\* ------------------------------------------------------------- constants
StdTTL == 4         \* stdTTL: 4 * 60 * 60 seconds, in hours
HoursPerDay == 24

\* ------------------------------------------------------------------ text
RECURSIVE Number(_)
\* ToNumber of a decimal numeral given as its digits ("" is 0)
Number(s) ==
    IF Len(s) = 0 THEN 0
    ELSE 10 * Number(SubSeq(s, 1, Len(s) - 1)) + s[Len(s)]

MonthNames == <<"Jan", "Feb", "Mar", "Apr", "May", "Jun",
                "Jul", "Aug", "Sep", "Oct", "Nov", "Dec">>

IsLeap(y) == (y % 4 = 0 /\ y % 100 # 0) \/ y % 400 = 0

DaysInMonth(m, y) ==
    IF m = 2 THEN (IF IsLeap(y) THEN 29 ELSE 28)
    ELSE IF m \in {4, 6, 9, 11} THEN 30 ELSE 31

RECURSIVE DaysBeforeMonth(_, _)
DaysBeforeMonth(m, y) ==
    IF m = 1 THEN 0 ELSE DaysBeforeMonth(m - 1, y) + DaysInMonth(m - 1, y)

LeapsUpTo(y) == (y \div 4) - (y \div 100) + (y \div 400)

\* days from 2025-01-01 to y-01-01
DaysBeforeYear(y) == 365 * (y - 2025) + LeapsUpTo(y - 1) - LeapsUpTo(2024)

InvalidDate == [nan |-> TRUE, n |-> 0]

\* date-fns parse(dateStr, "dd-MMM-yyyy", new Date()): local midnight of the
\* day, or Invalid Date when a field does not match the format
parse(dateStr) ==
    IF /\ \E m \in 1..12 : MonthNames[m] = dateStr.MMM
       /\ dateStr.yyyy >= 1
       /\ dateStr.dd >= 1
    THEN LET m == CHOOSE k \in 1..12 : MonthNames[k] = dateStr.MMM
         IN  IF dateStr.dd <= DaysInMonth(m, dateStr.yyyy)
             THEN [nan |-> FALSE,
                   n |-> HoursPerDay * (DaysBeforeYear(dateStr.yyyy)
                                        + DaysBeforeMonth(m, dateStr.yyyy)
                                        + dateStr.dd - 1)]
             ELSE InvalidDate
    ELSE InvalidDate

\* new Date(): the current instant
Now(t) == [nan |-> FALSE, n |-> t]

\* date-fns isBefore(a, b): false when either is Invalid Date
isBefore(a, b) == IF a.nan \/ b.nan THEN FALSE ELSE a.n < b.n

\* Date.prototype.toDateString: the calendar day; -1 stands for "Invalid Date"
toDateString(d) == IF d.nan THEN -1 ELSE d.n \div HoursPerDay

\* ------------------------------------------------------------------ sort
\* Array.prototype.sort(comparefn) with comparefn(a, b) = key(a) - key(b),
\* a NaN difference counting as 0: V8's run detection followed by binary
\* insertion, on the positions p of the array and the keys k of its entries.
Compare(x, y) == IF x.nan \/ y.nan THEN 0 ELSE x.n - y.n

RECURSIVE RunEnd(_, _, _, _)
RunEnd(p, k, desc, idx) ==
    IF idx > Len(p) THEN idx - 1
    ELSE LET order == Compare(k[p[idx]], k[p[idx - 1]])
         IN  IF (desc /\ order >= 0) \/ (~desc /\ order < 0)
             THEN idx - 1
             ELSE RunEnd(p, k, desc, idx + 1)

Reverse(s) == [i \in 1..Len(s) |-> s[Len(s) + 1 - i]]

RECURSIVE BinarySearch(_, _, _, _, _)
BinarySearch(p, k, pivot, left, right) ==
    IF left >= right THEN left
    ELSE LET mid == left + ((right - left) \div 2)
         IN  IF Compare(k[pivot], k[p[mid]]) < 0
             THEN BinarySearch(p, k, pivot, left, mid)
             ELSE BinarySearch(p, k, pivot, mid + 1, right)

RECURSIVE BinaryInsertionSort(_, _, _)
BinaryInsertionSort(p, k, start) ==
    IF start > Len(p) THEN p
    ELSE LET pivot == p[start]
             left == BinarySearch(p, k, pivot, 1, start)
             q == [i \in 1..Len(p) |->
                      IF i < left \/ i > start THEN p[i]
                      ELSE IF i = left THEN pivot ELSE p[i - 1]]
         IN  BinaryInsertionSort(q, k, start + 1)

SortPositions(k) ==
    LET p0 == [i \in 1..Len(k) |-> i]
    IN  IF Len(k) < 2 THEN p0
        ELSE LET desc == Compare(k[2], k[1]) < 0
                 run == RunEnd(p0, k, desc, 3)
                 p1 == IF desc
                       THEN Reverse(SubSeq(p0, 1, run)) \o SubSeq(p0, run + 1, Len(p0))
                       ELSE p0
             IN  BinaryInsertionSort(p1, k, run + 1)

SortBy(s, k) == LET p == SortPositions(k) IN [i \in 1..Len(s) |-> s[p[i]]]

\* ----------------------------------------------------------------- cache
\* const cacheKey = `${exchangeSymbol}_${masterSymbol}`
CacheKey(exchangeSymbol, masterSymbol) == exchangeSymbol \o "_" \o masterSymbol

\* symbolCache.get(key) as seen by "if (cachedData)": the stored value in a
\* one-element sequence, or <<>> when the key is absent or its deadline is
\* before now (node-cache: data.t < Date.now())
CacheGetIgnoringTTL(c, key, now) ==
    IF key \in DOMAIN c THEN <<c[key]>> ELSE <<>>

CacheGetAlwaysAbsent(c, key, now) == <<>>

CacheGet(c, key, now) ==
    IF key \in DOMAIN c /\ ~(c[key].t < now) THEN <<c[key]>> ELSE <<>>

\* the cache after symbolCache.get(key): an expired entry is deleted
CacheAfterGet(c, key, now) ==
    IF key \in DOMAIN c /\ c[key].t < now
    THEN [k \in DOMAIN c \ {key} |-> c[k]]
    ELSE c

\* symbolCache.set(key, value): replaces the entry, deadline now + stdTTL;
\* by records the request that stored it
CacheSetKeepFirst(c, key, value, now, by) ==
    IF key \in DOMAIN c THEN c
    ELSE [k \in DOMAIN c \cup {key} |->
             IF k = key THEN [v |-> value, t |-> now + StdTTL, by |-> by] ELSE c[k]]

CacheSet(c, key, value, now, by) ==
    [k \in DOMAIN c \cup {key} |->
        IF k = key THEN [v |-> value, t |-> now + StdTTL, by |-> by] ELSE c[k]]

\* --------------------------------------------------------------- builder
\* csvFilePath: the BFO dataset for exactly "BFO", the NFO dataset otherwise
CsvFile(f, exchangeSymbol) == IF exchangeSymbol = "BFO" THEN f.bfo ELSE f.nfo

\* the row test of the "data" handler
SelectedIgnoringExchange(row, exchangeSymbol, masterSymbol) ==
    row.Symbol = masterSymbol

Selected(row, exchangeSymbol, masterSymbol) ==
    row.Symbol = masterSymbol /\ row.Exchange = exchangeSymbol

StrikeData(row) ==
    [tradingSymbol |-> row.Tradingsymbol,
     securityId |-> row.Token,
     expiryDate |-> row.Expiry,
     strikePrice |-> row.Strike]

\* Set.prototype.add on a Set kept in insertion order
SetAdd(s, x) == IF \E i \in 1..Len(s) : s[i] = x THEN s ELSE Append(s, x)

\* the key of (a, b) => a.strikePrice - b.strikePrice
StrikeKeyFirstDigit(entry) ==
    [nan |-> FALSE, n |-> IF Len(entry.strikePrice) = 0 THEN 0 ELSE entry.strikePrice[1]]

StrikeKey(entry) == [nan |-> FALSE, n |-> Number(entry.strikePrice)]

SortStrikes(ladder) == SortBy(ladder, [i \in 1..Len(ladder) |-> StrikeKey(ladder[i])])

\* the filter predicate of sortedExpiryDates
ExpiryKeptAlways(dateStr, today) == TRUE

ExpiryKept(dateStr, today) ==
    \/ ~isBefore(parse(dateStr), today)
    \/ toDateString(parse(dateStr)) = toDateString(today)

RECURSIVE Filter(_, _)
Filter(s, today) ==
    IF Len(s) = 0 THEN <<>>
    ELSE (IF ExpiryKept(Head(s), today) THEN <<Head(s)>> ELSE <<>>)
         \o Filter(Tail(s), today)

\* Array.from(expiryDates).filter(...).sort((a, b) => dateA - dateB)
SortedExpiryDates(expiryDates, today) ==
    LET kept == Filter(expiryDates, today)
    IN  SortBy(kept, [i \in 1..Len(kept) |-> parse(kept[i])])

\* ------------------------------------------------------------------ data
Date(dd, MMM, yyyy) == [dd |-> dd, MMM |-> MMM, yyyy |-> yyyy]

Jun10 == Date(10, "Jun", 2025)
Jun15 == Date(15, "Jun", 2025)
Jun20 == Date(20, "Jun", 2025)
BadExpiry == Date(15, "June", 2025)

Row(symbol, exchange, token, expiry, strike, optiontype) ==
    [Symbol |-> symbol, Exchange |-> exchange,
     Tradingsymbol |-> symbol \o optiontype, Token |-> token,
     Expiry |-> expiry, Strike |-> strike, Optiontype |-> optiontype]

\* the two datasets of the server specification
NfoFile ==
    << Row("NIFTY", "NFO", 1, Jun20, <<1, 0>>, "CE") >>

BfoFile ==
    << Row("SENSEX_50", "BFO", 2, Jun15, <<9>>, "CE") >>

\* req.query of the server specification: two pairs, the first served by the
\* BFO dataset, the second (its exchange is not exactly "BFO") by the NFO one;
\* both join to the cache key "BFO_SENSEX_50"
LookupPairs ==
    { <<"BFO", "SENSEX_50">>, <<"BFO_SENSEX", "50">> }

\* the rows a dataset of SpecBuild is drawn from (Token is the row's place)
RowShapes ==
    { Row("NIFTY", "NFO", 0, Jun20, s, o) :
          s \in {<<9>>, <<1, 0>>, <<1, 0, 0>>}, o \in {"CE", "PE"} }
    \cup { Row("NIFTY", "NFO", 0, e, <<1, 0>>, "CE") : e \in {Jun10, Jun15, BadExpiry} }
    \cup { Row("NIFTY", "NFO", 0, Jun10, <<9>>, "XX"),
           Row("BANKNIFTY", "NFO", 0, Jun20, <<9>>, "CE"),
           Row("NIFTY", "BFO", 0, Jun20, <<9>>, "PE") }

StartOfJun15 == parse(Jun15).n

\* the clock when the server specification starts: 22:00 on 15 Jun 2025
StartClock == StartOfJun15 + 22

\* ----------------------------------------------------------------- state
Requests == 1..MaxReq

NoResult == [callStrikes |-> <<>>, putStrikes |-> <<>>, expiryDates |-> <<>>]

FreeReq ==
    [st |-> "free", exchangeSymbol |-> "", masterSymbol |-> "",
     pos |-> 0, callStrikes |-> <<>>, putStrikes |-> <<>>, expiryDates |-> <<>>,
     arrived |-> 0, ended |-> 0, prior |-> <<>>, from |-> "", servedBy |-> 0,
     code |-> 0, body |-> NoResult]

Key(i) == CacheKey(req[i].exchangeSymbol, req[i].masterSymbol)

InitCommon ==
    /\ alive = TRUE
    /\ cache = << >>
    /\ req = [i \in Requests |-> FreeReq]
    /\ scans = [k \in {CacheKey(p[1], p[2]) : p \in LookupPairs} |-> 0]
    /\ log = << >>

\* the server: the two datasets fixed, the clock at StartClock
Init ==
    /\ InitCommon
    /\ clock = StartClock
    /\ files = [nfo |-> NfoFile, bfo |-> BfoFile]

\* one build: any dataset of FileLen rows, at midnight or at 13:00
InitBuild ==
    /\ InitCommon
    /\ clock \in {StartOfJun15, StartOfJun15 + 13}
    /\ \E f \in [1..FileLen -> RowShapes] :
          files = [nfo |-> [i \in 1..FileLen |-> [f[i] EXCEPT !.Token = i]],
                   bfo |-> << >>]

\* --------------------------------------------------------------- actions
\* router.get("/symbols"): lines 236-255, up to the start of the stream
Lookup(i, exchangeSymbol, masterSymbol) ==
    /\ alive
    /\ req[i].st = "free"
    /\ i > 1 => req[i - 1].st # "free"
    /\ LET cacheKey == CacheKey(exchangeSymbol, masterSymbol)
           cachedData == CacheGet(cache, cacheKey, clock)
           r == [FreeReq EXCEPT !.exchangeSymbol = exchangeSymbol,
                                !.masterSymbol = masterSymbol,
                                !.arrived = clock, !.prior = log]
       IN  /\ cache' = CacheAfterGet(cache, cacheKey, clock)
           /\ IF cachedData # <<>>
              THEN /\ req' = [req EXCEPT ![i] =
                                 [r EXCEPT !.st = "done", !.from = "cache",
                                           !.servedBy = cachedData[1].by,
                                           !.ended = clock,
                                           !.code = 200, !.body = cachedData[1].v]]
                   /\ scans' = scans
              ELSE /\ req' = [req EXCEPT ![i] = [r EXCEPT !.st = "scanning", !.from = "build"]]
                   /\ scans' = [scans EXCEPT ![cacheKey] = @ + 1]
    /\ UNCHANGED <<clock, alive, files, log>>

\* .on("data", (row) => ...): the next row of the request's dataset
OnData(i) ==
    /\ alive
    /\ req[i].st = "scanning"
    /\ req[i].pos < Len(CsvFile(files, req[i].exchangeSymbol))
    /\ LET row == CsvFile(files, req[i].exchangeSymbol)[req[i].pos + 1]
           r == [req[i] EXCEPT !.pos = @ + 1]
       IN  req' = [req EXCEPT ![i] =
               IF Selected(row, r.exchangeSymbol, r.masterSymbol)
               THEN [r EXCEPT
                       !.callStrikes = IF row.Optiontype = "CE"
                                       THEN Append(@, StrikeData(row)) ELSE @,
                       !.putStrikes = IF row.Optiontype # "CE" /\ row.Optiontype = "PE"
                                      THEN Append(@, StrikeData(row)) ELSE @,
                       !.expiryDates = SetAdd(@, row.Expiry)]
               ELSE r]
    /\ UNCHANGED <<clock, alive, files, cache, scans, log>>

\* .on("end", () => ...): sort, filter, cache, answer
OnEnd(i) ==
    /\ alive
    /\ req[i].st = "scanning"
    /\ req[i].pos = Len(CsvFile(files, req[i].exchangeSymbol))
    /\ LET callStrikes == SortStrikes(req[i].callStrikes)
           putStrikes == SortStrikes(req[i].putStrikes)
           today == Now(clock)
           result == [callStrikes |-> callStrikes,
                      putStrikes |-> putStrikes,
                      expiryDates |-> SortedExpiryDates(req[i].expiryDates, today)]
       IN  /\ cache' = CacheSet(cache, Key(i), result, clock, i)
           /\ req' = [req EXCEPT ![i] =
                         [@ EXCEPT !.st = "done", !.callStrikes = callStrikes,
                                   !.putStrikes = putStrikes, !.servedBy = i,
                                   !.ended = clock, !.code = 200, !.body = result]]
    /\ log' = Append(log, i)
    /\ UNCHANGED <<clock, alive, files, scans>>

\* a request whose stream failed: its ladders and expiry set are dropped
\* (and with them the record of when it arrived)
Dropped(r, st) ==
    [r EXCEPT !.st = st, !.pos = 0, !.callStrikes = <<>>, !.putStrikes = <<>>,
              !.expiryDates = <<>>, !.arrived = 0, !.prior = <<>>]

\* .on("error", ...) of the csv parser: a malformed stream
ParseError(i) ==
    /\ alive
    /\ req[i].st = "scanning"
    /\ req' = [req EXCEPT ![i] = [Dropped(@, "parseError") EXCEPT !.code = 500]]
    /\ UNCHANGED <<clock, alive, files, cache, scans, log>>

\* "error" of fs.createReadStream (missing or unreadable file): the stream has
\* no "error" listener, pipe does not forward it, so the event is thrown as an
\* uncaught exception.  Either the process ends, and with it the cache and
\* every request in flight, or a process-level handler outside this file
\* keeps it running; the request is never answered.
ReadError(i) ==
    /\ alive
    /\ req[i].st = "scanning"
    /\ \/ /\ alive' = FALSE
          /\ cache' = << >>
          /\ req' = [j \in Requests |->
                        IF j = i THEN Dropped(req[j], "readError")
                        ELSE IF req[j].st = "scanning" THEN Dropped(req[j], "lost")
                        ELSE req[j]]
       \/ /\ alive' = TRUE
          /\ cache' = cache
          /\ req' = [req EXCEPT ![i] = Dropped(@, "readError")]
    /\ UNCHANGED <<clock, files, scans, log>>

\* time passes
Tick ==
    /\ alive
    /\ clock + TickHours <= StartClock + MaxTicks * TickHours
    /\ clock' = clock + TickHours
    /\ UNCHANGED <<alive, files, cache, req, scans, log>>

Next ==
    \/ \E i \in Requests, p \in LookupPairs : Lookup(i, p[1], p[2])
    \/ \E i \in Requests : OnData(i)
    \/ \E i \in Requests : OnEnd(i)
    \/ \E i \in Requests : ParseError(i)
    \/ \E i \in Requests : ReadError(i)
    \/ Tick

Spec == Init /\ [][Next]_vars

NextBuild ==
    \/ Lookup(1, "NFO", "NIFTY")
    \/ OnData(1)
    \/ OnEnd(1)

SpecBuild == InitBuild /\ [][NextBuild]_vars

\* ---------------------------------------------------------------- claims
Range(s) == {s[i] : i \in 1..Len(s)}

Started == {i \in Requests : req[i].st # "free"}

Built == {i \in Requests : req[i].st = "done" /\ req[i].from = "build"}

Pair(i) == <<req[i].exchangeSymbol, req[i].masterSymbol>>

\* the builds stored under i's cache key before i arrived, in order
PriorSameKey(i) == SelectSeq(req[i].prior, LAMBDA j : Key(j) = Key(i))

DayOf(t) == t \div HoursPerDay

ValidDay(dateStr) == parse(dateStr).n \div HoursPerDay

\* the scan counter of a key counts the lookups of that key that opened the dataset
ScansCounted ==
    \A k \in DOMAIN scans :
        scans[k] = Cardinality({i \in Started : Key(i) = k /\ req[i].from = "build"})

\* C1, as claimed: a lookup that arrives after a build of the same pair
\* finished at t, and before t + TTL, is served from the cache with a result
\* structurally identical to that build's.  (Stated for the lookups whose
\* cache key no build of another pair has used, so that a violation does not
\* rest on two pairs sharing a key.)
C1_AsClaimed ==
    \A i \in Started : \A j \in Range(req[i].prior) :
        (/\ Pair(j) = Pair(i)
         /\ req[i].arrived < req[j].ended + StdTTL
         /\ \A h \in Range(PriorSameKey(i)) : Pair(h) = Pair(i))
            => (req[i].from = "cache" /\ req[i].body = req[j].body)

\* C1, amended: a lookup that arrives before t + TTL of a build stored under
\* its cache key at t starts no scan and returns the result most recently
\* stored under that key.
C1_HitWithinTTL ==
    /\ ScansCounted
    /\ \A i \in Started :
          (\E j \in Range(PriorSameKey(i)) : req[i].arrived < req[j].ended + StdTTL)
              => /\ req[i].from = "cache"
                 /\ req[i].body = req[PriorSameKey(i)[Len(PriorSameKey(i))]].body

C1_Witness ==
    \E i \in Started : \E j \in Range(req[i].prior) :
        /\ Pair(j) = Pair(i)
        /\ req[j].ended < req[i].arrived
        /\ req[i].arrived < req[j].ended + StdTTL
        /\ req[i].from = "cache"
        /\ req[i].body = req[j].body
        /\ req[i].body.callStrikes # <<>>

\* C2: a lookup that arrives after the TTL of every entry stored under its
\* key has elapsed opens the dataset again (the scan counter counts it).
C2_RescanAfterTTL ==
    /\ ScansCounted
    /\ \A i \in Started :
          (/\ PriorSameKey(i) # <<>>
           /\ \A j \in Range(PriorSameKey(i)) : req[j].ended + StdTTL < req[i].arrived)
              => req[i].from = "build"

C2_Witness ==
    \E i \in Started :
        /\ PriorSameKey(i) # <<>>
        /\ \A j \in Range(PriorSameKey(i)) : req[j].ended + StdTTL < req[i].arrived
        /\ req[i].from = "build"
        /\ scans[Key(i)] >= 2

\* C3, as claimed: a result served from the cache was built for the pair
\* that is looked up.
C3_AsClaimed ==
    \A i \in Started : req[i].from = "cache" => Pair(req[i].servedBy) = Pair(i)

\* C4, as claimed: a lookup whose dataset could not be read or parsed is
\* answered with status 500 and no result, by a server that still holds its cache.
C4_AsClaimed ==
    \A i \in Started :
        req[i].st \in {"parseError", "readError"}
            => (req[i].code = 500 /\ req[i].body = NoResult /\ alive)

Ascending(ladder) ==
    \A a \in 1..Len(ladder) - 1 :
        Number(ladder[a].strikePrice) <= Number(ladder[a + 1].strikePrice)

\* C5: both ladders of a fresh build ascend in the numeric value of strikePrice.
C5_LaddersSorted ==
    \A i \in Built :
        Ascending(req[i].body.callStrikes) /\ Ascending(req[i].body.putStrikes)

C5_Witness ==
    \E i \in Built :
        LET c == req[i].body.callStrikes
        IN  /\ Len(c) >= 3
            /\ c[1].securityId > c[2].securityId
            /\ Number(c[1].strikePrice) < Number(c[2].strikePrice)
            /\ Number(c[2].strikePrice) < Number(c[3].strikePrice)

\* C6, as claimed: expiryDates holds exactly the collected strings whose
\* parsed date is on or after the day of the build, each once, ascending.
C6_AsClaimed ==
    \A i \in Built :
        LET e == req[i].body.expiryDates
        IN  /\ Range(e) = {s \in Range(req[i].expiryDates) :
                              ~parse(s).nan /\ ValidDay(s) >= DayOf(req[i].ended)}
            /\ Len(e) = Cardinality(Range(e))
            /\ \A a \in 1..Len(e) - 1 : ValidDay(e[a]) <= ValidDay(e[a + 1])

ChosenRows(i, optiontype) ==
    LET file == CsvFile(files, req[i].exchangeSymbol)
    IN  {p \in 1..Len(file) :
            /\ file[p].Symbol = req[i].masterSymbol
            /\ file[p].Exchange = req[i].exchangeSymbol
            /\ file[p].Optiontype = optiontype}

LadderIs(i, ladder, optiontype) ==
    LET file == CsvFile(files, req[i].exchangeSymbol)
    IN  /\ Len(ladder) = Cardinality(ChosenRows(i, optiontype))
        /\ Range(ladder) = {StrikeData(file[p]) : p \in ChosenRows(i, optiontype)}

OwnRowsOnly(i) ==
    LET file == CsvFile(files, req[i].exchangeSymbol)
    IN  /\ LadderIs(i, req[i].body.callStrikes, "CE")
        /\ LadderIs(i, req[i].body.putStrikes, "PE")
        /\ Range(req[i].expiryDates) =
              {file[p].Expiry : p \in UNION {ChosenRows(i, o) : o \in {"CE", "PE", "XX"}}}

\* C7: the ladders of a fresh build hold one entry for each row of the pair
\* with Optiontype CE, respectively PE, and nothing else; the expiry of every
\* row of the pair is collected.
C7_SelectionAndPartition == \A i \in Built : OwnRowsOnly(i)

C7_Witness ==
    \E i \in Built :
        LET file == CsvFile(files, req[i].exchangeSymbol)
        IN  /\ ChosenRows(i, "CE") # {}
            /\ ChosenRows(i, "XX") # {}
            /\ \E p \in 1..Len(file) :
                  file[p].Symbol = req[i].masterSymbol
                  /\ file[p].Exchange # req[i].exchangeSymbol

\* C8, as claimed: no expiry string whose parse is not a valid date is returned.
C8_AsClaimed ==
    \A i \in Built : \A s \in Range(req[i].body.expiryDates) : ~parse(s).nan

Concurrent(i, j) ==
    /\ i # j
    /\ Pair(i) = Pair(j)
    /\ i \notin Range(req[j].prior)
    /\ j \notin Range(req[i].prior)

\* C9, as claimed: concurrent builds of one pair give identical results.
C9_AsClaimed ==
    \A i \in Built : \A j \in Built : Concurrent(i, j) => req[i].body = req[j].body

LastStored(k) ==
    LET s == SelectSeq(log, LAMBDA j : Key(j) = k) IN s[Len(s)]

\* C9, amended: concurrent builds of one pair use only their own rows, give
\* identical results when they finish on the same day, and the cache entry of
\* a key is the result of the build that finished last under it.
C9_LastWriteWins ==
    /\ \A i \in Built : OwnRowsOnly(i)
    /\ \A i \in Built : \A j \in Built :
          (Concurrent(i, j) /\ DayOf(req[i].ended) = DayOf(req[j].ended))
              => req[i].body = req[j].body
    /\ \A k \in DOMAIN cache :
          /\ \E j \in Range(log) : Key(j) = k
          /\ cache[k].by = LastStored(k)
          /\ cache[k].v = req[LastStored(k)].body

C9_Witness ==
    \E i \in Built : \E j \in Built :
        /\ Concurrent(i, j)
        /\ req[i].body = req[j].body
        /\ req[i].body.callStrikes # <<>>
        /\ Key(i) \in DOMAIN cache
        /\ cache[Key(i)].by = j
        /\ log = <<i, j>>

\* C10, as claimed: no returned expiry lies before the day of the response
\* (stated for the results built for the pair that is looked up).
C10_AsClaimed ==
    \A i \in Started :
        (req[i].code = 200 /\ Pair(req[i].servedBy) = Pair(i))
            => \A s \in Range(req[i].body.expiryDates) :
                  ~parse(s).nan => ValidDay(s) >= DayOf(req[i].ended)

\* C10, amended: no returned expiry lies before the day on which the result
\* was built, and a result is returned at most TTL after it was built.
C10_FilteredAtBuild ==
    \A i \in Started :
        req[i].code = 200
            => /\ \A s \in Range(req[i].body.expiryDates) :
                     ~parse(s).nan => ValidDay(s) >= DayOf(req[req[i].servedBy].ended)
               /\ req[i].ended <= req[req[i].servedBy].ended + StdTTL

C10_Witness ==
    \E i \in Started :
        /\ req[i].code = 200
        /\ req[i].from = "cache"
        /\ Pair(req[i].servedBy) = Pair(i)
        /\ DayOf(req[i].ended) > DayOf(req[req[i].servedBy].ended)
        /\ \E s \in Range(req[i].body.expiryDates) : ValidDay(s) < DayOf(req[i].ended)

====
